---------------------------- MODULE Spec2Model ----------------------------
(***************************************************************************)
(* A model of the grenad parameter benchmark (src/src/main.rs): the        *)
(* dataset generator, the store builder (sorted-file and LMDB), the        *)
(* measurement runner (test_cursor / test_lmdb) behind its five read       *)
(* strategies, and the ranking of the results.                             *)
(*                                                                         *)
(* The external libraries are modelled by their contracts:                 *)
(*   - StdRng is a deterministic stream (a small full-period LCG);         *)
(*   - a word (Gabble) is a small integer token, a RoaringBitmap is the    *)
(*     set of integers it holds;                                           *)
(*   - a grenad file is the sequence of its entries followed by a          *)
(*     metadata footer that records the number of entries.                 *)
(***************************************************************************)
EXTENDS Integers, Sequences, FiniteSets, TLC

(***************************************************************************)
(* Bounds of the model.                                                    *)
(***************************************************************************)
\* seeds are 0..MaxSeed
MaxSeed == 1
\* entry_count is 0..MaxCount
MaxCount == 2
\* words are the tokens 1..NumWords
NumWords == 3
\* a measured duration is 0..MaxDur
MaxDur == 1

\* The largest u32 (scaled down from 2^32 - 1 so that bitmaps stay enumerable).
U32Max == 3

\* main.rs:21, scaled down from 116_000_000 together with U32Max so that the
\* cap of `take(MAX_BITMAP_LEN)` is reached by some generated values.
MAX_BITMAP_LEN == 2

(***************************************************************************)
(* StdRng: a deterministic stream.  seed_from_u64 fixes the state, every    *)
(* draw advances it.                                                       *)
(***************************************************************************)
seed_from_u64(seed) == (7 * seed + 15) % 64

RngStep(s) == (5 * s + 3) % 64

\* the number a draw yields once the state has advanced to s
RngOut(s) == s \div 4

\* rng.gen_range(lo..=hi)
gen_range(s, lo, hi) == [rng |-> RngStep(s), val |-> lo + (RngOut(RngStep(s)) % (hi - lo + 1))]

\* rng.gen::<u32>()
gen_u32(s) == [rng |-> RngStep(s), val |-> RngOut(RngStep(s)) % (U32Max + 1)]

\* rng.gen::<bool>()
gen_bool(s) == [rng |-> RngStep(s), val |-> (RngOut(RngStep(s)) % 2) = 1]

(***************************************************************************)
(* Sequences helpers.                                                      *)
(***************************************************************************)
Range(s) == {s[i] : i \in DOMAIN s}

Min(S) == CHOOSE x \in S : \A y \in S : x <= y

RECURSIVE SortedSeq(_)
\* the ascending sequence of the integers of S
SortedSeq(S) == IF S = {} THEN <<>> ELSE <<Min(S)>> \o SortedSeq(S \ {Min(S)})

StrictlySorted(s) == \A i, j \in DOMAIN s : i < j => s[i] < s[j]

IsPrefix(s, t) == Len(s) <= Len(t) /\ \A i \in DOMAIN s : s[i] = t[i]

(***************************************************************************)
(* Dataset generator (word mode), main.rs:186-197.                         *)
(***************************************************************************)
\* Gabble::new().with_length(rng.gen_range(3..=15)).generate(&mut rng):
\* one draw for the length, one for the letters.
gabble(s) ==
    LET l == gen_range(s, 3, 15)
        c == gen_range(l.rng, 0, NumWords - 1)
    IN  [rng |-> c.rng, val |-> 1 + ((l.val + c.val) % NumWords)]

RECURSIVE repeat_gabble(_, _)
\* iter::repeat_with(..).take(n).collect(): the words in generation order
repeat_gabble(s, n) ==
    IF n = 0 THEN [rng |-> s, val |-> <<>>]
    ELSE LET w == gabble(s)
             rest == repeat_gabble(w.rng, n - 1)
         IN  [rng |-> rest.rng, val |-> <<w.val>> \o rest.val]

\* words.sort_unstable() without the dedup: the words in ascending order,
\* every duplicate kept
sort_only(ws) ==
    CHOOSE t \in [DOMAIN ws -> Range(ws)] :
        /\ \A i, j \in DOMAIN ws : i < j => t[i] <= t[j]
        /\ \A x \in Range(ws) :
              Cardinality({i \in DOMAIN ws : t[i] = x}) = Cardinality({i \in DOMAIN ws : ws[i] = x})

\* words.sort_unstable(); words.dedup();
sort_dedup(ws) == SortedSeq(Range(ws))

\* the generator after the generation, and the sorted unique words
generate_words(seed, entry_count) ==
    LET g == repeat_gabble(seed_from_u64(seed), entry_count)
    IN  [rng |-> g.rng, words |-> sort_dedup(g.val)]

(***************************************************************************)
(* random_generate_roaring, main.rs:706-714.                               *)
(***************************************************************************)
Saturating(x) == IF x > U32Max THEN U32Max ELSE x

RECURSIVE filter_take(_, _, _, _)
\* (x..=end).filter(|_| rng.gen()).take(MAX_BITMAP_LEN), accumulated in acc
filter_take(s, x, end, acc) ==
    IF x > end \/ Cardinality(acc) >= MAX_BITMAP_LEN THEN [rng |-> s, val |-> acc]
    ELSE LET b == gen_bool(s)
         IN  filter_take(b.rng, x + 1, end, IF b.val THEN acc \cup {x} ELSE acc)

random_generate_roaring(s) ==
    LET start == gen_u32(s)
        add == gen_u32(start.rng)
        end == Saturating(start.val + add.val)
    IN  filter_take(add.rng, start.val, end, {})

(***************************************************************************)
(* The parameter grid, main.rs:199-220, and the artifact names.            *)
(***************************************************************************)
compressions == <<"None", "Snappy", "Lz4">>

index_levels == <<0, 1, 2, 3>>

block_sizes == <<8 * 1024, 4 * 1024, 2 * 1024, 1 * 1024, 512>>

\* vec![32, 24, 16, 12, 8, 4, 2].into_iter().filter_map(NonZeroUsize::new)
index_key_intervals == SelectSeq(<<32, 24, 16, 12, 8, 4, 2>>, LAMBDA x : x # 0)

\* the nested loops of main.rs:206-220, in their order
parameters ==
    LET nc == Len(compressions)
        nl == Len(index_levels)
        nb == Len(block_sizes)
        ni == Len(index_key_intervals)
    IN  [n \in 1..(nc * nl * nb * ni) |->
            [compression |-> compressions[((n - 1) \div (nl * nb * ni)) + 1],
             index_levels |-> index_levels[(((n - 1) \div (nb * ni)) % nl) + 1],
             block_size |-> block_sizes[(((n - 1) \div ni) % nb) + 1],
             index_key_interval |-> index_key_intervals[((n - 1) % ni) + 1]]]

\* a name that leaves the key interval out
name_without_interval(params) ==
    params.compression \o "." \o ToString(params.index_levels) \o "."
        \o ToString(params.block_size) \o ".grd"

\* format!("{:?}.{}.{}.{}.grd", ..)
name_from_params(params) ==
    params.compression \o "." \o ToString(params.index_levels) \o "."
        \o ToString(params.block_size) \o "." \o ToString(params.index_key_interval)
        \o ".grd"

\* The tuples a run of the model works on: the first MaxTuples of the grid.
MaxTuples == 2

Grid == SubSeq(parameters, 1, MaxTuples)

Tuples == Range(Grid)

Names == {name_from_params(p) : p \in Tuples}

(***************************************************************************)
(* A grenad file: its entries in insertion order, then the metadata footer *)
(* that records their number.                                              *)
(***************************************************************************)
Entry(k, v) == [tag |-> "entry", k |-> k, v |-> v]

Footer(n) == [tag |-> "meta", k |-> n, v |-> {}]

NoFile == [exists |-> FALSE, bytes |-> <<>>]

\* Writer: every insert appends an entry; into_inner writes the footer.
writer_finish(entries) == entries \o <<Footer(Len(entries))>>

\* Reader::new(reader)?.into_cursor()?: reads the footer at the end of the
\* byte source, then the entries before it.
Reader_new(bytes) ==
    IF /\ bytes # <<>>
       /\ bytes[Len(bytes)].tag = "meta"
       /\ bytes[Len(bytes)].k = Len(bytes) - 1
       /\ \A i \in 1..(Len(bytes) - 1) : bytes[i].tag = "entry"
    THEN [ok |-> TRUE, entries |-> SubSeq(bytes, 1, Len(bytes) - 1)]
    ELSE [ok |-> FALSE, entries |-> <<>>]

\* cursor.move_on_key_greater_than_or_equal_to(key): the position of the first
\* entry whose key is >= key, 0 for None
lower_bound(entries, key) ==
    LET ge == {i \in DOMAIN entries : entries[i].k >= key}
    IN  IF ge = {} THEN 0 ELSE Min(ge)

(***************************************************************************)
(* The measurement protocol, main.rs:579-639.                              *)
(***************************************************************************)
READ_METHODS == {"direct", "read-to-vec", "bufreader", "memory-mapped", "memory-mapped-bufreader"}

NoMeasure ==
    [ok |-> FALSE, opened |-> FALSE, passed |-> 0, seen |-> <<>>, targets |-> <<>>,
     found |-> <<>>, fail |-> "not run"]

\* a bound check that accepts every bitmap
within_bound_unchecked(v) == TRUE

\* assert!(bitmap.len() <= MAX_BITMAP_LEN as u64)
within_bound(v) == Cardinality(v) <= MAX_BITMAP_LEN

\* Why the iteration loop stops at entry i ("ok": it does not).
iter_check(entries, words, i) ==
    IF i > Len(words) THEN "index out of bounds"
    ELSE IF entries[i].k # words[i] THEN "key mismatch"
    ELSE IF ~within_bound(entries[i].v) THEN "bound"
    ELSE "ok"

\* The full iteration (main.rs:588-594): the entries read, up to and with the
\* first one an assertion rejects.
iter_phase(entries, words) ==
    LET bad == {i \in DOMAIN entries : iter_check(entries, words, i) # "ok"}
        stop == IF bad = {} THEN Len(entries) ELSE Min(bad)
    IN  [passed |-> IF bad = {} THEN Len(entries) ELSE stop - 1,
         seen |-> [i \in 1..stop |-> entries[i].k],
         fail |-> IF bad = {} THEN "ok" ELSE iter_check(entries, words, stop)]

RECURSIVE jump_phase(_, _, _, _, _, _)
\* The lower-bound probes (main.rs:598-605): n probes left, the targets drawn
\* and the keys found so far.
jump_phase(s, entries, words, n, targets, found) ==
    IF n = 0 THEN [rng |-> s, targets |-> targets, found |-> found, fail |-> "ok"]
    ELSE IF words = <<>>
    THEN [rng |-> s, targets |-> targets, found |-> found, fail |-> "no word"]
    ELSE LET c == gen_range(s, 0, Len(words) - 1)
             word == words[c.val + 1]
             at == lower_bound(entries, word)
             ts == Append(targets, word)
         IN  IF at = 0
             THEN [rng |-> c.rng, targets |-> ts, found |-> found, fail |-> "no entry"]
             ELSE IF entries[at].k # word
             THEN [rng |-> c.rng, targets |-> ts, found |-> Append(found, entries[at].k),
                   fail |-> "key mismatch"]
             ELSE IF ~within_bound(entries[at].v)
             THEN [rng |-> c.rng, targets |-> ts, found |-> Append(found, entries[at].k),
                   fail |-> "bound"]
             ELSE jump_phase(c.rng, entries, words, n - 1, ts, Append(found, entries[at].k))

\* the two phases over the entries of an opened store
timed_phases(s, entries, words, entry_count) ==
    LET it == iter_phase(entries, words)
        jp == jump_phase(s, entries, words, entry_count, <<>>, <<>>)
    IN  IF it.fail # "ok"
        THEN [ok |-> FALSE, opened |-> TRUE, passed |-> it.passed, seen |-> it.seen,
              targets |-> <<>>, found |-> <<>>, fail |-> it.fail]
        ELSE [ok |-> jp.fail = "ok", opened |-> TRUE, passed |-> it.passed,
              seen |-> it.seen, targets |-> jp.targets, found |-> jp.found,
              fail |-> jp.fail]

test_cursor(s, reader, words, entry_count) ==
    LET r == Reader_new(reader)
    IN  IF ~r.ok THEN [NoMeasure EXCEPT !.fail = "open"]
        ELSE timed_phases(s, r.entries, words, entry_count)

test_lmdb(s, entries, words, entry_count) == timed_phases(s, entries, words, entry_count)

(***************************************************************************)
(* The byte source each read strategy hands to test_cursor, main.rs:242-266.*)
(* A handle is a file name and a position.                                 *)
(***************************************************************************)
\* file.read_to_end(&mut bytes): from the position of the handle to the end
read_to_end(bytes, pos) == SubSeq(bytes, pos + 1, Len(bytes))

byte_source(method, bytes, pos) ==
    CASE method = "direct" -> bytes
      [] method = "read-to-vec" -> read_to_end(bytes, pos)
      [] method = "bufreader" -> bytes
      [] method = "memory-mapped" -> bytes
      [] method = "memory-mapped-bufreader" -> bytes

(***************************************************************************)
(* The store builder, sorted-file backend, main.rs:648-677 and 716-742.    *)
(***************************************************************************)
\* writer.insert(k, v)?: keys must be inserted in strictly increasing order
writer_insert(entries, k, v) ==
    IF entries # <<>> /\ entries[Len(entries)].k >= k
    THEN [ok |-> FALSE, entries |-> entries]
    ELSE [ok |-> TRUE, entries |-> Append(entries, Entry(k, v))]

RECURSIVE insert_words(_, _, _, _)
\* for word in words { random_generate_roaring(..); writer.insert(word, &buffer)?; }
insert_words(s, words, i, entries) ==
    IF i > Len(words) THEN [ok |-> TRUE, rng |-> s, entries |-> entries]
    ELSE LET v == random_generate_roaring(s)
             w == writer_insert(entries, words[i], v.val)
         IN  IF ~w.ok THEN [ok |-> FALSE, rng |-> v.rng, entries |-> entries]
             ELSE insert_words(v.rng, words, i + 1, w.entries)

\* create(true).truncate(true) in place of create_new(true): an existing file
\* is opened for writing again
create_truncate(dirExists, file) == IF ~dirExists THEN "NotFound" ELSE "Ok"

\* OpenOptions::new().create_new(true).write(true).read(true).open(&filepath)
create_new(dirExists, file) ==
    IF ~dirExists THEN "NotFound"
    ELSE IF file.exists THEN "AlreadyExists"
    ELSE "Ok"

\* The outcome of a build: status created | reused | error, the generator after
\* it, the file as the build leaves it, and the position of the returned handle.
random_generate_from_params(s, dirExists, file, words) ==
    LET opened == create_new(dirExists, file)
        ins == insert_words(s, words, 1, <<>>)
        bytes == writer_finish(ins.entries)
    IN  IF opened = "Ok"
        THEN IF ins.ok
             THEN [status |-> "created", access |-> "read-write", rng |-> ins.rng,
                   file |-> [exists |-> TRUE, bytes |-> bytes], pos |-> Len(bytes)]
             ELSE [status |-> "error", access |-> "none", rng |-> ins.rng,
                   file |-> [exists |-> TRUE, bytes |-> <<>>], pos |-> 0]
        ELSE IF opened = "AlreadyExists"
        THEN [status |-> "reused", access |-> "read-only", rng |-> s, file |-> file, pos |-> 0]
        ELSE [status |-> "error", access |-> "none", rng |-> s, file |-> file, pos |-> 0]

\* cursor.reset()
cursor_reset(cursor) == [cursor EXCEPT !.pos = 0]

RECURSIVE copy_entries(_, _)
\* while let Some((k, v)) = cursor.move_on_next()? { writer.insert(k, v)?; }
copy_entries(cursor, entries) ==
    IF cursor.pos >= Len(cursor.entries) THEN [ok |-> TRUE, cursor |-> cursor, entries |-> entries]
    ELSE LET e == cursor.entries[cursor.pos + 1]
             w == writer_insert(entries, e.k, e.v)
             next == [cursor EXCEPT !.pos = cursor.pos + 1]
         IN  IF ~w.ok THEN [ok |-> FALSE, cursor |-> next, entries |-> entries]
             ELSE copy_entries(next, w.entries)

generate_from_params(dirExists, file, cursor) ==
    LET opened == create_new(dirExists, file)
        ins == copy_entries(cursor_reset(cursor), <<>>)
        bytes == writer_finish(ins.entries)
    IN  IF opened = "Ok"
        THEN IF ins.ok
             THEN [status |-> "created", access |-> "read-write", cursor |-> ins.cursor,
                   file |-> [exists |-> TRUE, bytes |-> bytes], pos |-> Len(bytes)]
             ELSE [status |-> "error", access |-> "none", cursor |-> ins.cursor,
                   file |-> [exists |-> TRUE, bytes |-> <<>>], pos |-> 0]
        ELSE IF opened = "AlreadyExists"
        THEN [status |-> "reused", access |-> "read-only", cursor |-> cursor, file |-> file, pos |-> 0]
        ELSE [status |-> "error", access |-> "none", cursor |-> cursor, file |-> file, pos |-> 0]

(***************************************************************************)
(* The source file of the file-sourced commands: a grenad file whose keys  *)
(* are 1..n and whose values are any bitmaps, within the bound or not.     *)
(***************************************************************************)
MaxSrcLen == 2

SrcValues == {{0}, 0..MAX_BITMAP_LEN}

SourceFiles ==
    UNION {{[i \in 1..n |-> Entry(i, vs[i])] : vs \in [1..n -> SrcValues]} : n \in 0..MaxSrcLen}

\* Reader::new(map)?.into_cursor()? then the extraction loop, main.rs:292-303:
\* the words, and the cursor left at the end of the source
extract_words(source) ==
    [words |-> [i \in DOMAIN source |-> source[i].k],
     number_of_entries |-> Len(source),
     cursor |-> [entries |-> source, pos |-> Len(source)]]

(***************************************************************************)
(* The store builder, LMDB backend, main.rs:679-704 and 744-770.           *)
(***************************************************************************)
NoEnv == [exists |-> FALSE, entries |-> <<>>]

\* database.append(&mut wtxn, k, v)?: MDB_APPEND refuses a key that is not
\* greater than the last key of the database (MDB_KEYEXIST)
database_append(entries, k, v) ==
    IF entries # <<>> /\ entries[Len(entries)].k >= k
    THEN [ok |-> FALSE, entries |-> entries]
    ELSE [ok |-> TRUE, entries |-> Append(entries, Entry(k, v))]

RECURSIVE append_words(_, _, _, _)
\* for word in words { random_generate_roaring(..); database.append(..)?; }
append_words(s, words, i, entries) ==
    IF i > Len(words) THEN [ok |-> TRUE, rng |-> s, entries |-> entries]
    ELSE LET v == random_generate_roaring(s)
             a == database_append(entries, words[i], v.val)
         IN  IF ~a.ok THEN [ok |-> FALSE, rng |-> v.rng, entries |-> entries]
             ELSE append_words(v.rng, words, i + 1, a.entries)

\* create_dir_all and EnvOpenOptions::open create the environment; the write
\* transaction is committed when every append succeeded and aborted (dropped)
\* otherwise.
random_generate_lmdb(s, env, words) ==
    LET ins == append_words(s, words, 1, env.entries)
    IN  IF ins.ok
        THEN [status |-> "ok", rng |-> ins.rng, env |-> [exists |-> TRUE, entries |-> ins.entries]]
        ELSE [status |-> "error", rng |-> ins.rng, env |-> [exists |-> TRUE, entries |-> env.entries]]

RECURSIVE append_entries(_, _)
\* while let Some((k, v)) = cursor.move_on_next()? { database.append(..)?; }
append_entries(cursor, entries) ==
    IF cursor.pos >= Len(cursor.entries) THEN [ok |-> TRUE, cursor |-> cursor, entries |-> entries]
    ELSE LET e == cursor.entries[cursor.pos + 1]
             a == database_append(entries, e.k, e.v)
             next == [cursor EXCEPT !.pos = cursor.pos + 1]
         IN  IF ~a.ok THEN [ok |-> FALSE, cursor |-> next, entries |-> entries]
             ELSE append_entries(next, a.entries)

generate_lmdb(env, cursor) ==
    LET ins == append_entries(cursor_reset(cursor), env.entries)
    IN  IF ins.ok
        THEN [status |-> "ok", cursor |-> ins.cursor, env |-> [exists |-> TRUE, entries |-> ins.entries]]
        ELSE [status |-> "error", cursor |-> ins.cursor, env |-> [exists |-> TRUE, entries |-> env.entries]]

(***************************************************************************)
(* The ranking of the results, main.rs:273-278.                            *)
(***************************************************************************)
SORT_METHODS == {"iter-only", "iter-and-jump", "jump-only"}

\* one result, and one block of the report: the parameters and the durations
Block(name, iter, jump) == [params |-> name, iter |-> iter, jump |-> jump]

sort_key(sort_by, r) ==
    CASE sort_by = "iter-only" -> r.iter
      [] sort_by = "iter-and-jump" -> r.iter + r.jump
      [] sort_by = "jump-only" -> r.jump

Orderings(n) == {p \in [1..n -> 1..n] : \A i, j \in 1..n : i # j => p[i] # p[j]}

\* a sort that leaves the results in the order they were collected in
sort_nothing(results, sort_by) == {results}

\* results.sort_unstable_by_key(..): the results in ascending order of the key;
\* the sort is unstable, so equal keys may come out in any order.
sort_unstable_by_key(results, sort_by) ==
    {[i \in DOMAIN results |-> results[p[i]]] :
        p \in {q \in Orderings(Len(results)) :
                 \A i, j \in DOMAIN results :
                    i < j => sort_key(sort_by, results[q[i]]) <= sort_key(sort_by, results[q[j]])}}

(***************************************************************************)
(* The state: the destination folder, what the last single-tuple command   *)
(* did, and the full-grid run in progress.                                 *)
(***************************************************************************)
VARIABLES
    folderExists,   \* whether the destination folder exists
    files,          \* the sorted-file artifacts of the folder, by name
    writerCalls,    \* by name, how many times a build ran the writer on it
    origin,         \* by name, the command, seed and count whose build wrote it
    lmdb,           \* the LMDB environments of the folder, by path
    runs,           \* how many commands have been started
    last,           \* the last single-tuple command: its arguments and outcome
    run             \* the full-grid run: its arguments, tasks and report

vars == <<folderExists, files, writerCalls, origin, lmdb, runs, last, run>>

\* at most MaxRuns commands are run on the folder
MaxRuns == 2

Seeds == 0..MaxSeed

Counts == 0..MaxCount

Durations == 0..MaxDur

EnvPaths == {"random-lmdb.mdb", "lmdb.mdb"}

NoOrigin == [cmd |-> "none", seed |-> 0, count |-> 0]

NoCommand ==
    [cmd |-> "none", seed |-> 0, count |-> 0, name |-> "", build |-> "not run",
     access |-> "none", words |-> <<>>, pos |-> 0, mrng |-> 0, m |-> NoMeasure, outcome |-> "none",
     printed |-> <<>>]

NoCursor == [entries |-> <<>>, pos |-> 0]

\* map_with(cursor, ..) hands every worker of the pool its own clone of the
\* cursor; the pool has MaxWorkers workers
MaxWorkers == 2

Workers == 1..MaxWorkers

NoRun ==
    [phase |-> "idle", mode |-> "none", seed |-> 0, count |-> 0, method |-> "direct",
     words |-> <<>>, cursor |-> NoCursor, cursors |-> <<>>, copying |-> <<>>,
     built |-> <<>>, measured |-> <<>>,
     sort_by |-> "none", outcome |-> "none", printed |-> <<>>]

\* a task of the grid that has not run yet
PendingBuild == [status |-> "pending", access |-> "none", pos |-> 0]

PendingMeasure == [status |-> "pending", m |-> NoMeasure, iter |-> 0, jump |-> 0]

Init ==
    /\ folderExists \in BOOLEAN
    /\ files = [n \in Names |-> NoFile]
    /\ writerCalls = [n \in Names |-> 0]
    /\ origin = [n \in Names |-> NoOrigin]
    /\ lmdb = [e \in EnvPaths |-> NoEnv]
    /\ runs = 0
    /\ last = NoCommand
    /\ run = NoRun

\* What a single-tuple command leaves in `last`: the run fails when the build
\* or the measurement fails, and prints its block otherwise.
Finished(cmd, seed, count, name, build, access, words, pos, mrng, m, iter, jump) ==
    [cmd |-> cmd, seed |-> seed, count |-> count, name |-> name,
     build |-> build, access |-> access, words |-> words, pos |-> pos, mrng |-> mrng, m |-> m,
     outcome |-> IF m.ok THEN "ok" ELSE "error",
     printed |-> IF m.ok THEN <<Block(name, iter, jump)>> ELSE <<>>]

\* the folder after a build of `name` by command cmd
Built(name, b, cmd, seed, count) ==
    /\ files' = [files EXCEPT ![name] = b.file]
    /\ writerCalls' = [writerCalls EXCEPT ![name] = @ + (IF b.status = "created" THEN 1 ELSE 0)]
    /\ origin' = [origin EXCEPT ![name] =
                    IF b.status = "created" THEN [cmd |-> cmd, seed |-> seed, count |-> count]
                    ELSE @]

\* SubCommand::OneRandomTest, main.rs:461-515
OneRandomTest(seed, entry_count, read_method, params) ==
    LET name == name_from_params(params)
        g == generate_words(seed, entry_count)
        b == random_generate_from_params(g.rng, folderExists, files[name], g.words)
        m == IF b.status = "error" THEN NoMeasure
             ELSE test_cursor(b.rng, byte_source(read_method, b.file.bytes, b.pos),
                              g.words, entry_count)
    IN  /\ run.phase = "idle"
        /\ runs < MaxRuns
        /\ runs' = runs + 1
        /\ Built(name, b, "OneRandomTest", seed, entry_count)
        /\ \E iter, jump \in Durations :
              /\ m.ok \/ (iter = 0 /\ jump = 0)
              /\ last' = Finished("OneRandomTest", seed, entry_count, name,
                                  b.status, b.access, g.words, b.pos, b.rng, m, iter, jump)
        /\ UNCHANGED <<folderExists, lmdb, run>>

\* SubCommand::OneTest, main.rs:393-460
OneTest(seed, source, read_method, params) ==
    LET name == name_from_params(params)
        x == extract_words(source)
        b == generate_from_params(folderExists, files[name], x.cursor)
        rng == seed_from_u64(seed)
        m == IF b.status = "error" THEN NoMeasure
             ELSE test_cursor(rng, byte_source(read_method, b.file.bytes, b.pos),
                              x.words, x.number_of_entries)
    IN  /\ run.phase = "idle"
        /\ runs < MaxRuns
        /\ runs' = runs + 1
        /\ Built(name, b, "OneTest", seed, x.number_of_entries)
        /\ \E iter, jump \in Durations :
              /\ m.ok \/ (iter = 0 /\ jump = 0)
              /\ last' = Finished("OneTest", seed, x.number_of_entries, name,
                                  b.status, b.access, x.words, b.pos, rng, m, iter, jump)
        /\ UNCHANGED <<folderExists, lmdb, run>>

\* SubCommand::OneRandomLmdbTest, main.rs:548-573
OneRandomLmdbTest(seed, entry_count) ==
    LET path == "random-lmdb.mdb"
        g == generate_words(seed, entry_count)
        b == random_generate_lmdb(g.rng, lmdb[path], g.words)
        m == IF b.status = "error" THEN NoMeasure
             ELSE test_lmdb(b.rng, b.env.entries, g.words, entry_count)
    IN  /\ run.phase = "idle"
        /\ runs < MaxRuns
        /\ runs' = runs + 1
        /\ folderExists' = TRUE
        /\ lmdb' = [lmdb EXCEPT ![path] = b.env]
        /\ \E iter, jump \in Durations :
              /\ m.ok \/ (iter = 0 /\ jump = 0)
              /\ last' = Finished("OneRandomLmdbTest", seed, entry_count, path,
                                  b.status, "env", g.words, 0, b.rng, m, iter, jump)
        /\ UNCHANGED <<files, writerCalls, origin, run>>

\* SubCommand::OneLmdbTest, main.rs:516-547
OneLmdbTest(seed, source) ==
    LET path == "lmdb.mdb"
        x == extract_words(source)
        b == generate_lmdb(lmdb[path], x.cursor)
        rng == seed_from_u64(seed)
        m == IF b.status = "error" THEN NoMeasure
             ELSE test_lmdb(rng, b.env.entries, x.words, x.number_of_entries)
    IN  /\ run.phase = "idle"
        /\ runs < MaxRuns
        /\ runs' = runs + 1
        /\ folderExists' = TRUE
        /\ lmdb' = [lmdb EXCEPT ![path] = b.env]
        /\ \E iter, jump \in Durations :
              /\ m.ok \/ (iter = 0 /\ jump = 0)
              /\ last' = Finished("OneLmdbTest", seed, x.number_of_entries, path,
                                  b.status, "env", x.words, 0, rng, m, iter, jump)
        /\ UNCHANGED <<files, writerCalls, origin, run>>

(***************************************************************************)
(* The full-grid commands, main.rs:184-286 and 287-392: the build tasks    *)
(* and then the measurement tasks run in parallel, one per tuple of the    *)
(* grid; the report is sorted and printed after the second phase.          *)
(***************************************************************************)
GridIndex == DOMAIN Grid

\* SubCommand::ExtendedRandomTests up to the first parallel phase, main.rs:184-224
ExtendedRandomTests(seed, entry_count, read_method) ==
    /\ run.phase = "idle"
    /\ runs < MaxRuns
    /\ runs' = runs + 1
    /\ run' = [NoRun EXCEPT !.phase = "build", !.mode = "random", !.seed = seed,
                            !.count = entry_count, !.method = read_method,
                            !.words = generate_words(seed, entry_count).words,
                            !.built = [i \in GridIndex |-> PendingBuild],
                            !.measured = [i \in GridIndex |-> PendingMeasure]]
    /\ last' = NoCommand
    /\ UNCHANGED <<folderExists, files, writerCalls, origin, lmdb>>

\* SubCommand::ExtendedTests up to the first parallel phase, main.rs:287-332
ExtendedTests(seed, source, read_method) ==
    LET x == extract_words(source)
    IN  /\ run.phase = "idle"
        /\ runs < MaxRuns
        /\ runs' = runs + 1
        /\ run' = [NoRun EXCEPT !.phase = "build", !.mode = "file", !.seed = seed,
                                !.count = x.number_of_entries, !.method = read_method,
                                !.words = x.words, !.cursor = x.cursor,
                                !.cursors = [w \in Workers |-> x.cursor],
                                !.copying = [i \in GridIndex |-> 0],
                                !.built = [i \in GridIndex |-> PendingBuild],
                                !.measured = [i \in GridIndex |-> PendingMeasure]]
        /\ last' = NoCommand
        /\ UNCHANGED <<folderExists, files, writerCalls, origin, lmdb>>

\* One task of the first phase, main.rs:227-231 and 335-337.
BuildTask(i) ==
    LET name == name_from_params(Grid[i])
        b == IF run.mode = "random"
             THEN random_generate_from_params(seed_from_u64(run.seed), folderExists,
                                              files[name], run.words)
             ELSE generate_from_params(folderExists, files[name], run.cursor)
    IN  /\ run.phase = "build"
        /\ run.built[i].status = "pending"
        /\ Built(name, b, IF run.mode = "random" THEN "ExtendedRandomTests" ELSE "ExtendedTests",
                 run.seed, run.count)
        /\ run' = [run EXCEPT !.built[i] = [status |-> b.status, access |-> b.access, pos |-> b.pos]]
        /\ UNCHANGED <<folderExists, lmdb, runs, last>>

\* a first phase that hands over to the second without joining its tasks
BuildJoinEarly ==
    /\ run.phase = "build"
    /\ \A i \in GridIndex : run.built[i].status # "error"
    /\ run' = [run EXCEPT !.phase = "measure"]
    /\ UNCHANGED <<folderExists, files, writerCalls, origin, lmdb, runs, last>>

\* .collect::<anyhow::Result<Vec<_>, _>>()? with every build done, main.rs:233
BuildJoin ==
    /\ run.phase = "build"
    /\ \A i \in GridIndex : run.built[i].status \in {"created", "reused"}
    /\ run' = [run EXCEPT !.phase = "measure"]
    /\ UNCHANGED <<folderExists, files, writerCalls, origin, lmdb, runs, last>>

\* .collect::<anyhow::Result<Vec<_>, _>>()? with a failed build: main returns
\* the error; the tasks that have not run yet are dropped
BuildFail ==
    /\ run.phase = "build"
    /\ \E i \in GridIndex : run.built[i].status = "error"
    /\ run' = [run EXCEPT !.phase = "done", !.outcome = "error"]
    /\ UNCHANGED <<folderExists, files, writerCalls, origin, lmdb, runs, last>>

\* One task of the second phase, main.rs:240-269 and 346-375.
MeasureTask(i) ==
    LET name == name_from_params(Grid[i])
        m == test_cursor(seed_from_u64(run.seed),
                         byte_source(run.method, files[name].bytes, run.built[i].pos),
                         run.words, run.count)
    IN  /\ run.phase = "measure"
        /\ run.measured[i].status = "pending"
        /\ \E iter, jump \in Durations :
              /\ m.ok \/ (iter = 0 /\ jump = 0)
              /\ run' = [run EXCEPT !.measured[i] =
                            [status |-> IF m.ok THEN "ok" ELSE "error", m |-> m,
                             iter |-> iter, jump |-> jump]]
        /\ UNCHANGED <<folderExists, files, writerCalls, origin, lmdb, runs, last>>

\* the results as collected, in the order of the grid
collected(measured) ==
    [i \in DOMAIN measured |->
        Block(name_from_params(Grid[i]), measured[i].iter, measured[i].jump)]

\* The results are sorted and printed, main.rs:271-285.
Report(sort_by) ==
    /\ run.phase = "measure"
    /\ \A i \in GridIndex : run.measured[i].status = "ok"
    /\ \E sorted \in sort_unstable_by_key(collected(run.measured), sort_by) :
          run' = [run EXCEPT !.phase = "done", !.sort_by = sort_by, !.outcome = "ok",
                             !.printed = sorted]
    /\ UNCHANGED <<folderExists, files, writerCalls, origin, lmdb, runs, last>>

\* a run that prints the blocks of the tasks that succeeded before it fails
AbortWithPartialReport ==
    /\ run.phase = "measure"
    /\ \E i \in GridIndex : run.measured[i].status = "error"
    /\ run' = [run EXCEPT !.phase = "done", !.outcome = "error",
                          !.printed = SelectSeq(collected(run.measured),
                                LAMBDA r : \E i \in GridIndex :
                                    /\ run.measured[i].status = "ok"
                                    /\ r.params = name_from_params(Grid[i]))]
    /\ UNCHANGED <<folderExists, files, writerCalls, origin, lmdb, runs, last>>

\* A measurement task failed (an error or a panic): the run ends before the
\* sort, main.rs:271.
Abort ==
    /\ run.phase = "measure"
    /\ \E i \in GridIndex : run.measured[i].status = "error"
    /\ run' = [run EXCEPT !.phase = "done", !.outcome = "error"]
    /\ UNCHANGED <<folderExists, files, writerCalls, origin, lmdb, runs, last>>

(***************************************************************************)
(* The build task of the file-sourced run in its steps, main.rs:333-339    *)
(* and 716-742: the task runs on a worker with that worker's cursor, opens *)
(* the file, copies the source one entry at a time and finishes the        *)
(* writer.  run.copying[i] is the worker that runs (or ran) task i.        *)
(***************************************************************************)
\* cursor.move_on_next()
move_on_next(cursor) ==
    IF cursor.pos >= Len(cursor.entries) THEN [some |-> FALSE, entry |-> Entry(0, {}), cursor |-> cursor]
    ELSE [some |-> TRUE, entry |-> cursor.entries[cursor.pos + 1],
          cursor |-> [cursor EXCEPT !.pos = cursor.pos + 1]]

\* a pool in which a worker takes a task while it is still running another
AnyWorker(w) == TRUE

\* a worker runs one task at a time: it takes the next one when the closure
\* of the previous one has returned
WorkerIdle(w) ==
    \A j \in DOMAIN run.built : ~(run.built[j].status = "copying" /\ run.copying[j] = w)

\* generate_from_params up to cursor.reset(), main.rs:721-732
BuildStart(i, w) ==
    LET name == name_from_params(Grid[i])
        opened == create_new(folderExists, files[name])
    IN  /\ run.phase = "build"
        /\ run.mode = "file"
        /\ run.built[i].status = "pending"
        /\ WorkerIdle(w)
        /\ IF opened = "Ok"
           THEN /\ files' = [files EXCEPT ![name] = [exists |-> TRUE, bytes |-> <<>>]]
                /\ run' = [run EXCEPT !.built[i] = [status |-> "copying", access |-> "none", pos |-> 0],
                                      !.copying[i] = w,
                                      !.cursors[w] = cursor_reset(@)]
           ELSE /\ files' = files
                /\ run' = [run EXCEPT !.copying[i] = w,
                                      !.built[i] =
                                         IF opened = "AlreadyExists"
                                         THEN [status |-> "reused", access |-> "read-only", pos |-> 0]
                                         ELSE [status |-> "error", access |-> "none", pos |-> 0]]
        /\ UNCHANGED <<folderExists, writerCalls, origin, lmdb, runs, last>>

\* one turn of the copy loop, main.rs:733-735
BuildCopy(i) ==
    LET name == name_from_params(Grid[i])
        w == run.copying[i]
        next == move_on_next(run.cursors[w])
        ins == writer_insert(files[name].bytes, next.entry.k, next.entry.v)
    IN  /\ run.phase = "build"
        /\ run.built[i].status = "copying"
        /\ next.some
        /\ files' = [files EXCEPT ![name].bytes = ins.entries]
        /\ run' = [run EXCEPT !.cursors[w] = next.cursor,
                              !.built[i] = IF ins.ok THEN @
                                           ELSE [status |-> "error", access |-> "none", pos |-> 0]]
        /\ UNCHANGED <<folderExists, writerCalls, origin, lmdb, runs, last>>

\* the loop ends and the writer is finished, main.rs:733 and 737
BuildFinish(i) ==
    LET name == name_from_params(Grid[i])
        w == run.copying[i]
        bytes == writer_finish(files[name].bytes)
    IN  /\ run.phase = "build"
        /\ run.built[i].status = "copying"
        /\ ~move_on_next(run.cursors[w]).some
        /\ Built(name, [status |-> "created", file |-> [exists |-> TRUE, bytes |-> bytes]],
                 "ExtendedTests", run.seed, run.count)
        /\ run' = [run EXCEPT !.built[i] = [status |-> "created", access |-> "read-write",
                                            pos |-> Len(bytes)]]
        /\ UNCHANGED <<folderExists, lmdb, runs, last>>

(***************************************************************************)
(* A build that fails after it has created the file: an insert or the      *)
(* final flush returns an I/O error (main.rs:669, 672 and 734, 737) and    *)
(* the `?` leaves the function.  Nothing removes the file: it keeps the    *)
(* `written` entries that had reached it, and no footer.                   *)
(***************************************************************************)
\* random_generate_from_params when the write fails after `written` entries
random_generate_io_error(s, dirExists, file, words, written) ==
    LET ins == insert_words(s, words, 1, <<>>)
    IN  [status |-> "error", access |-> "none", rng |-> ins.rng,
         file |-> [exists |-> TRUE, bytes |-> SubSeq(ins.entries, 1, written)], pos |-> 0]

\* generate_from_params when the write fails after `written` entries
generate_io_error(dirExists, file, cursor, written) ==
    LET ins == copy_entries(cursor_reset(cursor), <<>>)
    IN  [status |-> "error", access |-> "none", cursor |-> ins.cursor,
         file |-> [exists |-> TRUE, bytes |-> SubSeq(ins.entries, 1, written)], pos |-> 0]

\* SubCommand::OneRandomTest, main.rs:461-515, its build failing on a write
OneRandomTestIoError(seed, entry_count, params, written) ==
    LET name == name_from_params(params)
        g == generate_words(seed, entry_count)
        b == random_generate_io_error(g.rng, folderExists, files[name], g.words, written)
    IN  /\ run.phase = "idle"
        /\ runs < MaxRuns
        /\ create_new(folderExists, files[name]) = "Ok"
        /\ written <= Len(g.words)
        /\ runs' = runs + 1
        /\ Built(name, b, "OneRandomTest", seed, entry_count)
        /\ last' = Finished("OneRandomTest", seed, entry_count, name,
                            b.status, b.access, g.words, b.pos, b.rng, NoMeasure, 0, 0)
        /\ UNCHANGED <<folderExists, lmdb, run>>

\* SubCommand::OneTest, main.rs:393-460, its build failing on a write
OneTestIoError(seed, source, params, written) ==
    LET name == name_from_params(params)
        x == extract_words(source)
        b == generate_io_error(folderExists, files[name], x.cursor, written)
    IN  /\ run.phase = "idle"
        /\ runs < MaxRuns
        /\ create_new(folderExists, files[name]) = "Ok"
        /\ written <= Len(x.words)
        /\ runs' = runs + 1
        /\ Built(name, b, "OneTest", seed, x.number_of_entries)
        /\ last' = Finished("OneTest", seed, x.number_of_entries, name,
                            b.status, b.access, x.words, b.pos, seed_from_u64(seed),
                            NoMeasure, 0, 0)
        /\ UNCHANGED <<folderExists, lmdb, run>>

Next ==
    \/ \E seed \in Seeds, n \in Counts, rm \in READ_METHODS, p \in Tuples :
          OneRandomTest(seed, n, rm, p)
    \/ \E seed \in Seeds, src \in SourceFiles, rm \in READ_METHODS, p \in Tuples :
          OneTest(seed, src, rm, p)
    \/ \E seed \in Seeds, n \in Counts : OneRandomLmdbTest(seed, n)
    \/ \E seed \in Seeds, src \in SourceFiles : OneLmdbTest(seed, src)

\* Up to MaxRuns single-tuple commands, of either backend, on one folder.
Spec == Init /\ [][Next]_vars

NextGrid ==
    \/ \E seed \in Seeds, n \in Counts, rm \in READ_METHODS, p \in Tuples :
          OneRandomTest(seed, n, rm, p)
    \/ \E seed \in Seeds, n \in Counts, rm \in READ_METHODS :
          ExtendedRandomTests(seed, n, rm)
    \/ \E seed \in Seeds, src \in SourceFiles, rm \in READ_METHODS :
          ExtendedTests(seed, src, rm)
    \/ \E i \in GridIndex : BuildTask(i)
    \/ BuildJoin
    \/ BuildFail
    \/ \E i \in GridIndex : MeasureTask(i)
    \/ \E sort_by \in SORT_METHODS : Report(sort_by)
    \/ Abort

\* Single-tuple commands and then one full-grid run on the same folder, at
\* most MaxRuns commands in all.
SpecGrid == Init /\ [][NextGrid]_vars

NextCopy ==
    \/ \E seed \in Seeds, src \in SourceFiles, rm \in READ_METHODS :
          ExtendedTests(seed, src, rm)
    \/ \E i \in GridIndex, w \in Workers : BuildStart(i, w)
    \/ \E i \in GridIndex : BuildCopy(i)
    \/ \E i \in GridIndex : BuildFinish(i)
    \/ BuildJoin
    \/ BuildFail

\* The first phase of a file-sourced full-grid run, its build tasks running
\* concurrently in their steps on the workers of the pool.
SpecCopy == Init /\ [][NextCopy]_vars

NextFaults ==
    \/ \E seed \in Seeds, n \in Counts, rm \in READ_METHODS, p \in Tuples :
          OneRandomTest(seed, n, rm, p)
    \/ \E seed \in Seeds, src \in SourceFiles, rm \in READ_METHODS, p \in Tuples :
          OneTest(seed, src, rm, p)
    \/ \E seed \in Seeds, n \in Counts, p \in Tuples, written \in 0..MaxCount :
          OneRandomTestIoError(seed, n, p, written)
    \/ \E seed \in Seeds, src \in SourceFiles, p \in Tuples, written \in 0..MaxSrcLen :
          OneTestIoError(seed, src, p, written)

\* Up to MaxRuns sorted-file commands on one folder, any of whose builds may
\* fail on a write after it has created the file.
SpecFaults == Init /\ [][NextFaults]_vars

(***************************************************************************)
(* The sorted-file commands and the store their build worked on.           *)
(***************************************************************************)
FileCommands == {"OneRandomTest", "OneTest"}

LmdbCommands == {"OneRandomLmdbTest", "OneLmdbTest"}

\* the entries of the store the last command built or reused
StoreEntries ==
    IF last.cmd \in FileCommands THEN Reader_new(files[last.name].bytes).entries
    ELSE IF last.cmd \in LmdbCommands THEN lmdb[last.name].entries
    ELSE <<>>

\* the positions of the store's entries whose value exceeds the bound
Oversized == {i \in DOMAIN StoreEntries : Cardinality(StoreEntries[i].v) > MAX_BITMAP_LEN}

\* the last command got as far as calling test_cursor / test_lmdb
Measured == last.cmd # "none" /\ last.m.fail # "not run"

(***************************************************************************)
(* C1. Round-trip: when OneRandomTest's build created the store of a       *)
(* non-empty dataset and the measurement ran on the returned handle, the   *)
(* iteration yielded exactly the dataset's keys in order and every probe   *)
(* found its target.                                                       *)
(***************************************************************************)
C1_RoundTrip ==
    (last.cmd = "OneRandomTest" /\ last.build = "created" /\ last.words # <<>>) =>
        /\ last.m.ok
        /\ last.m.seen = last.words
        /\ Len(last.m.targets) = last.count
        /\ last.m.found = last.m.targets

(***************************************************************************)
(* C2. Idempotent build: once an artifact exists, no later build of the    *)
(* same name runs the writer or changes the file; the build that finds it  *)
(* returns a read-only handle without error; the writer runs at most once  *)
(* per name.                                                               *)
(***************************************************************************)
C2_IdempotentBuild ==
    [][\A n \in Names :
          /\ writerCalls'[n] <= 1
          /\ files[n].exists =>
                /\ files'[n] = files[n]
                /\ writerCalls'[n] = writerCalls[n]
                /\ (runs' = runs + 1 /\ last'.cmd \in FileCommands /\ last'.name = n) =>
                      (last'.build = "reused" /\ last'.access = "read-only")]_vars

\* a build found the artifact an earlier build had written
C2_Witness ==
    /\ last.cmd \in FileCommands
    /\ last.build = "reused"
    /\ writerCalls[last.name] = 1
    /\ Len(files[last.name].bytes) > 1

(***************************************************************************)
(* C3. Read-strategy equivalence: for the handle a build returned (fresh   *)
(* or reopened) on the store of a non-empty dataset, each of the five      *)
(* strategies hands test_cursor the whole content of the artifact, and the *)
(* measurement has the same outcome under every strategy.                  *)
(***************************************************************************)
C3_StrategyEquivalence ==
    (/\ last.cmd \in FileCommands /\ last.build \in {"created", "reused"}
     /\ last.words # <<>>) =>
        \A rm \in READ_METHODS :
            /\ byte_source(rm, files[last.name].bytes, last.pos) = files[last.name].bytes
            /\ test_cursor(last.mrng, byte_source(rm, files[last.name].bytes, last.pos),
                           last.words, last.count) = last.m

(***************************************************************************)
(* C4. Determinism of jump targets: two successful OneRandomTest runs      *)
(* with the same seed and entry count, one after the other, draw the same  *)
(* sequence of jump targets (whether the store was built or reused).       *)
(***************************************************************************)
C4_SameJumpTargets ==
    [][(/\ last.cmd = "OneRandomTest" /\ last'.cmd = "OneRandomTest"
        /\ runs' = runs + 1
        /\ last.m.ok /\ last'.m.ok
        /\ last.seed = last'.seed /\ last.count = last'.count)
       => last'.m.targets = last.m.targets]_vars

(***************************************************************************)
(* C7. Bound check fails fast: when the measured store holds a value whose *)
(* cardinality exceeds MAX_BITMAP_LEN, the measurement fails, no durations *)
(* are printed, and no entry at or after the first such value is accepted: *)
(* the reading stops at that entry at the latest.                          *)
(***************************************************************************)
C7_BoundFailsFast ==
    (Measured /\ Oversized # {}) =>
        /\ ~last.m.ok
        /\ last.outcome = "error"
        /\ last.printed = <<>>
        /\ last.m.passed < Min(Oversized)
        /\ Len(last.m.seen) <= Min(Oversized)

\* the iteration accepted the first entry and stopped on the bound of the second
C7_Witness ==
    /\ Measured
    /\ Oversized # {}
    /\ Min(Oversized) = 2
    /\ last.m.fail = "bound"
    /\ last.m.passed = 1
    /\ Len(last.m.seen) = 2

(***************************************************************************)
(* C8. Idempotent build of the LMDB store: when an LMDB command is run a    *)
(* second time on the same folder with the same non-empty dataset, the     *)
(* second build succeeds and the store holds exactly the dataset's keys.   *)
(***************************************************************************)
C8_LmdbIdempotent ==
    [][(/\ last.cmd \in LmdbCommands /\ last'.cmd = last.cmd
        /\ runs' = runs + 1
        /\ last.build = "ok"
        /\ last.words # <<>>
        /\ last'.seed = last.seed /\ last'.count = last.count
        /\ last'.words = last.words)
       => /\ last'.build = "ok"
          /\ [i \in DOMAIN lmdb'[last'.name].entries |-> lmdb'[last'.name].entries[i].k]
                = last'.words]_vars

(***************************************************************************)
(* C5. Determinism of synthetic values: two stores built by the random     *)
(* commands (full grid or single tuple) from the same seed and entry count *)
(* hold the same entries, value for value.                                 *)
(***************************************************************************)
RandomCommands == {"OneRandomTest", "ExtendedRandomTests"}

C5_SameValues ==
    \A n1, n2 \in Names :
        (/\ files[n1].exists /\ files[n2].exists
         /\ origin[n1].cmd \in RandomCommands /\ origin[n2].cmd \in RandomCommands
         /\ origin[n1].seed = origin[n2].seed
         /\ origin[n1].count = origin[n2].count)
        => files[n1].bytes = files[n2].bytes

(***************************************************************************)
(* C6. No partial report: in a full-grid run, once a build task or a       *)
(* measurement task has failed nothing is printed, and the run ends        *)
(* with a failure.                                                         *)
(***************************************************************************)
TaskFailed ==
    \E i \in DOMAIN run.built :
        run.built[i].status = "error" \/ run.measured[i].status = "error"

C6_NoPartialReport ==
    TaskFailed =>
        /\ run.printed = <<>>
        /\ run.phase = "done" => run.outcome = "error"

\* the run failed after one of its measurement tasks had returned its durations
C6_Witness ==
    /\ run.phase = "done"
    /\ run.outcome = "error"
    /\ \E i, j \in DOMAIN run.measured :
          run.measured[i].status = "ok" /\ run.measured[j].status = "error"

(***************************************************************************)
(* C9. Ranking: the report of a successful full-grid run is a permutation  *)
(* of the collected results, with exactly one block per tuple of the grid, *)
(* in non-decreasing order of the key of the sort mode.                    *)
(***************************************************************************)
Reported == run.phase = "done" /\ run.outcome = "ok"

C9_Ranking ==
    Reported =>
        /\ \E p \in Orderings(Len(collected(run.measured))) :
              run.printed = [i \in DOMAIN run.printed |-> collected(run.measured)[p[i]]]
        /\ \A i \in GridIndex :
              Cardinality({k \in DOMAIN run.printed :
                             run.printed[k].params = name_from_params(Grid[i])}) = 1
        /\ \A a, b \in DOMAIN run.printed :
              a < b => sort_key(run.sort_by, run.printed[a]) <= sort_key(run.sort_by, run.printed[b])

\* the sort moved a later result of the grid in front of an earlier one
C9_Witness ==
    /\ Reported
    /\ run.sort_by = "iter-and-jump"
    /\ run.printed # collected(run.measured)
    /\ sort_key(run.sort_by, run.printed[1]) < sort_key(run.sort_by, run.printed[Len(run.printed)])

(***************************************************************************)
(* C10. Stable ranking: two results with an equal sort key are printed in  *)
(* the order in which they were collected (the order of the grid).         *)
(***************************************************************************)
\* the position in the grid of the tuple a block echoes
GridPosition(block) == CHOOSE i \in GridIndex : name_from_params(Grid[i]) = block.params

C10_StableRanking ==
    Reported =>
        \A a, b \in DOMAIN run.printed :
            (a < b /\ sort_key(run.sort_by, run.printed[a]) = sort_key(run.sort_by, run.printed[b]))
            => GridPosition(run.printed[a]) < GridPosition(run.printed[b])

(***************************************************************************)
(* C11. Phase barrier: in a full-grid run no measurement task has started  *)
(* while a build task of the grid is unfinished, and nothing is printed    *)
(* while a measurement task is unfinished; inside a phase a task that has  *)
(* not run yet can run whatever the state of the other tasks (its          *)
(* enabledness is evaluated in the runs that are the first command on the  *)
(* folder; the two barriers are checked in every run).                     *)
(***************************************************************************)
FirstCommand == runs = 1

BuildsFinished == \A i \in DOMAIN run.built : run.built[i].status \in {"created", "reused"}

MeasuresFinished == \A i \in DOMAIN run.measured : run.measured[i].status # "pending"

C11_PhaseBarrier ==
    /\ (\E i \in DOMAIN run.measured : run.measured[i].status # "pending") => BuildsFinished
    /\ run.printed # <<>> => (BuildsFinished /\ MeasuresFinished)
    /\ \A i \in DOMAIN run.built :
          (FirstCommand /\ run.phase = "build" /\ run.built[i].status = "pending")
              => ENABLED BuildTask(i)
    /\ \A i \in DOMAIN run.measured :
          (FirstCommand /\ run.phase = "measure" /\ run.measured[i].status = "pending")
              => ENABLED MeasureTask(i)

\* the second phase is under way: one measurement returned, another has not run
C11_Witness ==
    /\ run.phase = "measure"
    /\ BuildsFinished
    /\ \E i, j \in DOMAIN run.measured :
          run.measured[i].status = "ok" /\ run.measured[j].status = "pending"

(***************************************************************************)
(* C12. Disjoint artifact paths: the grid is exactly the Cartesian product *)
(* of the four candidate lists (3 x 4 x 5 x 7 tuples, none twice),         *)
(* name_from_params gives two distinct tuples of the grid distinct names,  *)
(* and in a run no two build tasks have created the same artifact.         *)
(***************************************************************************)
ProductTuples ==
    {[compression |-> c, index_levels |-> l, block_size |-> b, index_key_interval |-> k] :
        c \in Range(compressions), l \in Range(index_levels),
        b \in Range(block_sizes), k \in Range(index_key_intervals)}

GridIsProduct ==
    /\ Len(parameters) = 3 * 4 * 5 * 7
    /\ Range(parameters) = ProductTuples
    /\ \A i, j \in DOMAIN parameters : i # j => parameters[i] # parameters[j]

NamesInjective ==
    \A i, j \in DOMAIN parameters :
        parameters[i] # parameters[j]
            => name_from_params(parameters[i]) # name_from_params(parameters[j])

C12_DisjointPaths ==
    /\ GridIsProduct
    /\ NamesInjective
    /\ \A i, j \in DOMAIN run.built :
          (i # j /\ run.built[i].status = "created" /\ run.built[j].status = "created")
              => /\ name_from_params(Grid[i]) # name_from_params(Grid[j])
                 /\ writerCalls[name_from_params(Grid[i])] = 1
                 /\ writerCalls[name_from_params(Grid[j])] = 1

\* two build tasks of one run have each created their artifact
C12_Witness ==
    /\ run.phase = "build"
    /\ \E i, j \in DOMAIN run.built :
          /\ i # j
          /\ run.built[i].status = "created" /\ run.built[j].status = "created"
          /\ Len(files[name_from_params(Grid[i])].bytes) > 1
          /\ Len(files[name_from_params(Grid[j])].bytes) > 1

(***************************************************************************)
(* C13. Generated key set: for every seed and count the generated key list *)
(* is strictly increasing and has at most count keys; a sorted-file build  *)
(* of it has no insertion rejected: it fails only when the file cannot be  *)
(* created, and the store it creates holds exactly the generated keys.     *)
(***************************************************************************)
GeneratedKeysIncreasing ==
    \A seed \in Seeds, n \in Counts :
        /\ StrictlySorted(generate_words(seed, n).words)
        /\ Len(generate_words(seed, n).words) <= n

C13_KeysIncreasing ==
    /\ GeneratedKeysIncreasing
    /\ last.cmd = "OneRandomTest" =>
          /\ StrictlySorted(last.words)
          /\ Len(last.words) <= last.count
          /\ last.build = "error" => ~folderExists
          /\ last.build = "created" =>
                [i \in DOMAIN StoreEntries |-> StoreEntries[i].k] = last.words

\* the build inserted two keys that were generated in descending order
C13_Witness ==
    /\ last.cmd = "OneRandomTest"
    /\ last.build = "created"
    /\ Len(last.words) = 2
    /\ repeat_gabble(seed_from_u64(last.seed), last.count).val # last.words
    /\ Len(StoreEntries) = 2
    /\ StoreEntries[1].k < StoreEntries[2].k

(***************************************************************************)
(* C14. File-sourced builds copy the whole source: every build task of a   *)
(* file-sourced run that created its artifact wrote the complete entry     *)
(* sequence of the source, in order, wherever its worker's cursor had been *)
(* left; two tasks that are copying at the same time never use the same    *)
(* cursor, and a task's cursor is advanced by that task's reads only.      *)
(***************************************************************************)
Copying(i) == run.built[i].status = "copying"

C14_WholeSourceCopied ==
    run.mode = "file" =>
        /\ \A i \in DOMAIN run.built :
              run.built[i].status = "created" =>
                 Reader_new(files[name_from_params(Grid[i])].bytes)
                    = [ok |-> TRUE, entries |-> run.cursor.entries]
        /\ \A i, j \in DOMAIN run.built :
              (i # j /\ Copying(i) /\ Copying(j)) => run.copying[i] # run.copying[j]
        /\ \A i \in DOMAIN run.built :
              Copying(i) =>
                 files[name_from_params(Grid[i])].bytes
                    = SubSeq(run.cursor.entries, 1, run.cursors[run.copying[i]].pos)

\* one worker has built two artifacts, one after the other, from a source of
\* two entries: its second task found the cursor at the end of the source
C14_Witness ==
    /\ run.mode = "file"
    /\ Len(run.cursor.entries) = 2
    /\ \E i, j \in DOMAIN run.built :
          /\ i # j
          /\ run.built[i].status = "created" /\ run.built[j].status = "created"
          /\ run.copying[i] = run.copying[j]
          /\ Reader_new(files[name_from_params(Grid[j])].bytes).entries = run.cursor.entries

(***************************************************************************)
(* C15. A successful measurement certifies the whole store: whenever the   *)
(* measurement of a single-tuple command returned its durations (on a      *)
(* store the command built or reused), the key sequence of the store is    *)
(* exactly the key sequence of the dataset, entry for entry.               *)
(***************************************************************************)
StoreKeys == [i \in DOMAIN StoreEntries |-> StoreEntries[i].k]

C15_MeasureCertifies ==
    (last.cmd # "none" /\ last.m.ok) =>
        /\ Len(StoreKeys) = Len(last.words)
        /\ StoreKeys = last.words

(***************************************************************************)
(* C16. Only complete artifacts are handed out: whenever a sorted-file     *)
(* build returned a handle (it created the artifact or found it), the      *)
(* artifact is finalized, and the one the build created holds the whole    *)
(* dataset; also when an earlier build of the same parameters had failed   *)
(* after creating the file.                                                *)
(***************************************************************************)
C16_OnlyCompleteArtifacts ==
    (last.cmd \in FileCommands /\ last.build \in {"created", "reused"}) =>
        /\ Reader_new(files[last.name].bytes).ok
        /\ last.build = "created" => StoreKeys = last.words

=============================================================================
